---- MODULE Spec2Model ----
(***************************************************************************)
(* Timekeeping::Scheduler: a worker thread that invokes scheduled          *)
(* callbacks when an injected clock reaches their due time.                *)
(*                                                                         *)
(* The repository holds two revisions of Scheduler.cpp.  They differ in    *)
(* the cancellation bookkeeping and in whether the worker keeps the mutex  *)
(* while it invokes a callback:                                            *)
(*   "set"  src/src/Scheduler.cpp   std::set<int> canceledCallbacks,       *)
(*          Cancel inserts any token, callback() runs with the mutex held  *)
(*   "map"  src/unnamed/part_000    std::map<int,bool> isCallbackCanceled, *)
(*          Cancel marks only known tokens, callback() runs unlocked       *)
(* The variable revision is chosen in Init and never changes, so every     *)
(* property is stated about both.                                          *)
(*                                                                         *)
(* Threads: the worker, the object's owner ("client": any number of        *)
(* caller threads, whose locked sections are atomic), and the worker       *)
(* itself while it is inside a callback (re-entrant calls).                *)
(***************************************************************************)
EXTENDS Integers, Sequences, FiniteSets, TLC

\* Bound: the number of Schedule calls in a behaviour (nextToken is an int
\* that only ever grows; its overflow after 2^31 calls is out of reach here).
MaxCalls == 2

\* Bound: clock readings and due times range over 0..MaxTime.
MaxTime == 2

\* The Clock objects the program owns (std::shared_ptr<Clock> handles).  Both
\* count the same seconds, each from its own reference point: clockB's lies one
\* second after clockA's, so replacing clockA by clockB makes the scheduler's
\* time step back and the reverse makes it jump ahead.
Clocks == {"clockA", "clockB"}

\* impl_->clock before any SetClock: a default-constructed shared_ptr.
NullClock == "nullptr"

Revisions == {"set", "map"}

Threads == {"client", "worker"}

Dues == 0..MaxTime

\* Tokens a caller may hand to Cancel: 0, issued ones, ones not yet issued.
CancelTokens == 0..MaxCalls

VARIABLES
    revision,            \* which Scheduler.cpp this behaviour runs
    clock,               \* Impl::clock
    time,                \* seconds passed since clockA's reference point
    scheduledCallbacks,  \* Impl::scheduledCallbacks (the priority queue's content)
    nextToken,           \* Impl::nextToken
    canceledCallbacks,   \* Impl::canceledCallbacks ("set" revision)
    isCallbackCanceled,  \* Impl::isCallbackCanceled ("map" revision)
    stopWorker,          \* Impl::stopWorker
    mutexOwner,          \* who holds Impl::mutex
    workerPc,            \* where Impl::Worker is
    callback,            \* Worker's local copy of the entry it is firing
    now,                 \* Worker's local `now` of the pass that decided to fire
    dtorPc,              \* where ~Impl is
    \* ---- history (observations; the program does not read them) ----
    calls,               \* one record per Schedule call: due, returned token, clock set?,
                         \* entries the worker had picked before the call
    fired,               \* one record per callback invocation begun: callback, sampled now
    reached,             \* calls whose due the attached clock has reported since they were made
    cancelRequested,     \* calls whose issued token has been passed to Cancel
    safeCancel,          \* ... and Cancel returned before the clock ever reported the due
    armed,               \* calls for which WakeUp ran with clock >= due, and no dip since
    cancelPending,       \* calls whose token was passed to Cancel while their entry was queued
    lastSetClock         \* the handle passed to the latest SetClock call

vars == <<revision, clock, time, scheduledCallbacks, nextToken, canceledCallbacks,
          isCallbackCanceled, stopWorker, mutexOwner, workerPc, callback, now,
          dtorPc, calls, fired, reached, cancelRequested, safeCancel, armed,
          cancelPending, lastSetClock>>

program == <<revision, clock, scheduledCallbacks, nextToken, canceledCallbacks,
             isCallbackCanceled, stopWorker, mutexOwner, workerPc, callback, now, dtorPc>>

history == <<calls, fired, reached, cancelRequested, safeCancel, armed,
             cancelPending, lastSetClock>>

----------------------------------------------------------------------------
(* Data *)

\* struct ScheduledCallback { int token; double due; Callback callback; }
\* A callback is identified by the index of the Schedule call that passed it.
ScheduledCallback(t, d, cb) == [token |-> t, due |-> d, callback |-> cb]

\* The worker's `callback` local outside the firing branch.
NoCallback == [token |-> 0, due |-> 0, callback |-> 0]

\* A slip: the comparison is written the other way round.
GreaterReversed(a, b) == a.due < b.due

\* ScheduledCallback::operator>
Greater(a, b) == a.due > b.due

\* A slip: the front of an unordered container instead of a heap's top.
TopUnordered(q) == q

\* priority_queue<..., std::greater<>>::top(): an entry no other entry is
\* smaller than.  Which of several entries with equal due is on top depends on
\* the heap's history; every choice is allowed here.
Top(q) == {e \in q : \A o \in q : ~Greater(e, o)}

\* Clock::GetCurrentTime(): seconds since the clock's reference point.
GetCurrentTime(c, t) == IF c = "clockB" THEN t - 1 ELSE t

\* std::map operations used on isCallbackCanceled
MapHas(m, k) == k \in DOMAIN m

MapPut(m, k, v) == [x \in (DOMAIN m) \cup {k} |-> IF x = k THEN v ELSE m[x]]

MapErase(m, k) == [x \in (DOMAIN m) \ {k} |-> m[x]]

EmptyMap == [x \in {} |-> FALSE]

\* std::map::operator[]: a missing key is inserted with bool() = false
MapIndex(m, k) == IF MapHas(m, k) THEN m ELSE MapPut(m, k, FALSE)

\* condition_variable::notify_one / notify_all: the worker is the only thread
\* that ever waits; a notification with nobody waiting is lost.
Notify(pc) == IF pc \in {"idle", "waiting"} THEN "woken" ELSE pc

----------------------------------------------------------------------------
(* History bookkeeping *)

\* The calls (registered ones) whose due time clock c reports as reached.
NowReached(cs, c, tm) ==
    {k \in 1..Len(cs) : cs[k].token # 0 /\ c # NullClock /\ GetCurrentTime(c, tm) >= cs[k].due}

\* The calls that were handed token t (t # 0).
CallsOfToken(t) == {k \in 1..Len(calls) : t # 0 /\ calls[k].token = t}

Invocations(k) == Cardinality({i \in 1..Len(fired) : fired[i].callback = k})

\* Call k's entry is in the queue.
Pending(k) == \E e \in scheduledCallbacks : e.callback = k

\* How many entries the worker has picked for firing so far.
Picks == Len(fired) + (IF workerPc = "calling" THEN 1 ELSE 0)

----------------------------------------------------------------------------
Init ==
    /\ revision \in Revisions
    /\ clock = NullClock
    /\ time = 0
    /\ scheduledCallbacks = {}
    /\ nextToken = 1
    /\ canceledCallbacks = {}
    /\ isCallbackCanceled = EmptyMap
    /\ stopWorker = FALSE
    /\ mutexOwner = "none"
    /\ workerPc = "start"
    /\ callback = NoCallback
    /\ now = -1
    /\ dtorPc = "alive"
    /\ calls = <<>>
    /\ fired = <<>>
    /\ reached = {}
    /\ cancelRequested = {}
    /\ safeCancel = {}
    /\ armed = {}
    /\ cancelPending = {}
    /\ lastSetClock = NullClock

----------------------------------------------------------------------------
(* Who may call, and who gets the mutex *)

\* The owner uses the object until it starts destroying it; the worker thread
\* calls into the scheduler only from inside a callback.
CanCall(thr) ==
    \/ thr = "client" /\ dtorPc = "alive"
    \/ thr = "worker" /\ workerPc = "running"

\* A slip: a plain std::mutex, which its own holder cannot lock again.
CanLockNonRecursive(thr) == mutexOwner = "none"

\* std::recursive_mutex: free, or already held by the calling thread.
CanLock(thr) == mutexOwner = "none" \/ mutexOwner = thr

----------------------------------------------------------------------------
(* The environment: time passes (nobody watches it once the scheduler is gone) *)

Advance ==
    /\ time < MaxTime
    /\ dtorPc # "destroyed"
    /\ time' = time + 1
    /\ reached' = reached \cup NowReached(calls, clock, time')
    /\ UNCHANGED <<program, calls, fired, cancelRequested, safeCancel, armed,
                   cancelPending, lastSetClock>>

----------------------------------------------------------------------------
(* Public operations *)

\* Scheduler::GetClock: an unlocked load.
GetClock == clock

\* A slip: a clock, once set, is not replaced.
SetClockOnlyOnce(thr, c) ==
    /\ CanCall(thr)
    /\ clock' = IF clock = NullClock THEN c ELSE clock
    /\ lastSetClock' = c
    /\ reached' = reached \cup NowReached(calls, clock', time)
    /\ armed' = armed \cap NowReached(calls, clock', time)
    /\ UNCHANGED <<revision, time, scheduledCallbacks, nextToken, canceledCallbacks,
                   isCallbackCanceled, stopWorker, mutexOwner, workerPc, callback,
                   now, dtorPc, calls, fired, cancelRequested, safeCancel,
                   cancelPending>>

\* Scheduler::SetClock: an unlocked store.
SetClock(thr, c) ==
    /\ CanCall(thr)
    /\ clock' = c
    /\ lastSetClock' = c
    /\ reached' = reached \cup NowReached(calls, c, time)
    /\ armed' = armed \cap NowReached(calls, c, time)
    /\ UNCHANGED <<revision, time, scheduledCallbacks, nextToken, canceledCallbacks,
                   isCallbackCanceled, stopWorker, mutexOwner, workerPc, callback,
                   now, dtorPc, calls, fired, cancelRequested, safeCancel,
                   cancelPending>>

\* A slip: the token is taken before the clock is looked at.
ScheduleNoClockTakesToken(d) ==
    /\ calls' = Append(calls, [due |-> d, token |-> 0, hadClock |-> FALSE,
                                picks |-> Picks])
    /\ nextToken' = nextToken + 1
    /\ UNCHANGED <<revision, clock, scheduledCallbacks, canceledCallbacks,
                   isCallbackCanceled, stopWorker, mutexOwner, workerPc, callback, now,
                   dtorPc, time, fired, reached, cancelRequested, safeCancel, armed,
                   cancelPending, lastSetClock>>

\* Scheduler::Schedule, without a clock: return 0 before the lock is taken.
ScheduleNoClock(d) ==
    /\ calls' = Append(calls, [due |-> d, token |-> 0, hadClock |-> FALSE,
                                picks |-> Picks])
    /\ UNCHANGED <<program, time, fired, reached, cancelRequested, safeCancel, armed,
                   cancelPending, lastSetClock>>

\* A slip: the entry is pushed and the worker is not notified.
ScheduleLockedNoNotify(thr, d) ==
    /\ CanLock(thr)
    /\ LET token == nextToken
           scheduledCallback == ScheduledCallback(token, d, Len(calls) + 1)
       IN /\ nextToken' = nextToken + 1
          /\ isCallbackCanceled' =
                IF revision = "map" THEN MapPut(isCallbackCanceled, token, FALSE)
                ELSE isCallbackCanceled
          /\ scheduledCallbacks' = scheduledCallbacks \cup {scheduledCallback}
          /\ workerPc' = workerPc
          /\ calls' = Append(calls, [due |-> d, token |-> token,
                                   hadClock |-> clock # NullClock,
                                   picks |-> Picks])
    /\ reached' = reached \cup NowReached(calls', clock, time)
    /\ UNCHANGED <<revision, clock, time, canceledCallbacks, stopWorker, mutexOwner,
                   callback, now, dtorPc, fired, cancelRequested, safeCancel, armed,
                   cancelPending, lastSetClock>>

\* Scheduler::Schedule, with a clock: take the next token, push, notify_one.
ScheduleLocked(thr, d) ==
    /\ CanLock(thr)
    /\ LET token == nextToken
           scheduledCallback == ScheduledCallback(token, d, Len(calls) + 1)
       IN /\ nextToken' = nextToken + 1
          /\ isCallbackCanceled' =
                IF revision = "map" THEN MapPut(isCallbackCanceled, token, FALSE)
                ELSE isCallbackCanceled
          /\ scheduledCallbacks' = scheduledCallbacks \cup {scheduledCallback}
          /\ workerPc' = Notify(workerPc)
          /\ calls' = Append(calls, [due |-> d, token |-> token,
                                   hadClock |-> clock # NullClock,
                                   picks |-> Picks])
    /\ reached' = reached \cup NowReached(calls', clock, time)
    /\ UNCHANGED <<revision, clock, time, canceledCallbacks, stopWorker, mutexOwner,
                   callback, now, dtorPc, fired, cancelRequested, safeCancel, armed,
                   cancelPending, lastSetClock>>

\* A slip: the test for a missing clock is left out.
ScheduleUnchecked(thr, d) ==
    /\ CanCall(thr)
    /\ Len(calls) < MaxCalls
    /\ ScheduleLocked(thr, d)

Schedule(thr, d) ==
    /\ CanCall(thr)
    /\ Len(calls) < MaxCalls
    /\ IF clock = NullClock THEN ScheduleNoClock(d) ELSE ScheduleLocked(thr, d)

\* Scheduler::Cancel, "set" revision: insert the token, whatever it is.
CancelSet(token) ==
    /\ canceledCallbacks' = canceledCallbacks \cup {token}
    /\ UNCHANGED isCallbackCanceled

\* Scheduler::Cancel, "map" revision: mark the token if the map knows it.
CancelMap(token) ==
    /\ isCallbackCanceled' =
          IF MapHas(isCallbackCanceled, token)
          THEN MapPut(isCallbackCanceled, token, TRUE)
          ELSE isCallbackCanceled
    /\ UNCHANGED canceledCallbacks

Cancel(thr, token) ==
    /\ CanCall(thr)
    /\ CanLock(thr)
    /\ IF revision = "set" THEN CancelSet(token) ELSE CancelMap(token)
    /\ cancelRequested' = cancelRequested \cup CallsOfToken(token)
    /\ safeCancel' = safeCancel \cup (CallsOfToken(token) \ reached)
    /\ cancelPending' = cancelPending \cup {k \in CallsOfToken(token) : Pending(k)}
    /\ UNCHANGED <<revision, clock, time, scheduledCallbacks, nextToken, stopWorker,
                   mutexOwner, workerPc, callback, now, dtorPc, calls, fired,
                   reached, armed, lastSetClock>>

\* Scheduler::WakeUp
WakeUp(thr) ==
    /\ CanCall(thr)
    /\ CanLock(thr)
    /\ workerPc' = Notify(workerPc)
    /\ armed' = armed \cup NowReached(calls, clock, time)
    /\ UNCHANGED <<revision, clock, time, scheduledCallbacks, nextToken,
                   canceledCallbacks, isCallbackCanceled, stopWorker, mutexOwner,
                   callback, now, dtorPc, calls, fired, reached, cancelRequested,
                   safeCancel,
                   cancelPending, lastSetClock>>

----------------------------------------------------------------------------
(* Impl::Worker *)

\* unique_lock's constructor at the top of Worker, and the re-lock on the way
\* out of wait / wait_for.
WorkerLock ==
    /\ workerPc \in {"start", "woken"}
    /\ mutexOwner = "none"
    /\ mutexOwner' = "worker"
    /\ workerPc' = "eval"
    /\ UNCHANGED <<revision, clock, time, scheduledCallbacks, nextToken,
                   canceledCallbacks, isCallbackCanceled, stopWorker, callback, now,
                   dtorPc, history>>

\* while (!stopWorker) fails: leave the loop, unique_lock's destructor unlocks.
WorkerExit ==
    /\ workerPc = "eval"
    /\ stopWorker
    /\ workerPc' = "stopped"
    /\ mutexOwner' = "none"
    /\ UNCHANGED <<revision, clock, time, scheduledCallbacks, nextToken,
                   canceledCallbacks, isCallbackCanceled, stopWorker, callback, now,
                   dtorPc, history>>

\* A slip: the clock is sampled at the top of the loop, before the queue is
\* tested for emptiness.
WorkerIdleSamplesClock ==
    /\ workerPc = "eval"
    /\ ~stopWorker
    /\ scheduledCallbacks = {}
    /\ workerPc' = IF clock = NullClock THEN "crashed" ELSE "idle"
    /\ mutexOwner' = "none"
    /\ UNCHANGED <<revision, clock, time, scheduledCallbacks, nextToken,
                   canceledCallbacks, isCallbackCanceled, stopWorker, callback, now,
                   dtorPc, history>>

\* scheduledCallbacks.empty(): wakeWorker.wait(lock)
WorkerIdle ==
    /\ workerPc = "eval"
    /\ ~stopWorker
    /\ scheduledCallbacks = {}
    /\ workerPc' = "idle"
    /\ mutexOwner' = "none"
    /\ UNCHANGED <<revision, clock, time, scheduledCallbacks, nextToken,
                   canceledCallbacks, isCallbackCanceled, stopWorker, callback, now,
                   dtorPc, history>>

\* A slip: the cancellation bookkeeping is not consulted.
IsNotCanceledIgnored(e) == TRUE

\* isNotCanceled, as each revision computes it.
IsNotCanceled(e) ==
    IF revision = "set"
    THEN e.token \notin canceledCallbacks
    ELSE ~MapIndex(isCallbackCanceled, e.token)[e.token]

\* A slip: the wait time is computed as now - due.
ShouldWaitSignFlipped(e, n) == (n - e.due > 0) /\ IsNotCanceled(e)

\* (waitTimeSeconds > 0) && isNotCanceled
ShouldWait(e, n) == (e.due - n > 0) /\ IsNotCanceled(e)

\* A slip: a plain else in place of else if (isNotCanceled).
ShouldFireUnchecked(e, n) == ~ShouldWait(e, n)

\* else if (isNotCanceled)
ShouldFire(e, n) == ~ShouldWait(e, n) /\ IsNotCanceled(e)

\* clock->GetCurrentTime() through a null handle is undefined behaviour; every
\* build dereferences the null pointer and the process dies.
WorkerCrash ==
    /\ workerPc' = "crashed"
    /\ UNCHANGED <<revision, clock, time, scheduledCallbacks, nextToken,
                   canceledCallbacks, isCallbackCanceled, stopWorker, mutexOwner,
                   callback, now, dtorPc, history>>

\* wakeWorker.wait_for(lock, ceil(waitTimeSeconds * 1000) ms)
WorkerWait(e) ==
    /\ workerPc' = "waiting"
    /\ mutexOwner' = "none"
    /\ isCallbackCanceled' =
          IF revision = "map" THEN MapIndex(isCallbackCanceled, e.token)
          ELSE isCallbackCanceled
    /\ UNCHANGED <<revision, clock, time, scheduledCallbacks, nextToken,
                   canceledCallbacks, stopWorker, callback, now, dtorPc, history>>

\* A slip: the entry is not popped before it is called.
WorkerFireNoPop(e, n) ==
    /\ callback' = e
    /\ now' = n
    /\ mutexOwner' = IF revision = "map" THEN "none" ELSE mutexOwner
    /\ workerPc' = "calling"
    /\ UNCHANGED <<revision, clock, time, scheduledCallbacks, nextToken,
                   canceledCallbacks, isCallbackCanceled, stopWorker, dtorPc, history>>

\* copy the callback, (erase the token,) pop, (unlock): about to call it
WorkerFire(e, n) ==
    /\ callback' = e
    /\ now' = n
    /\ scheduledCallbacks' = scheduledCallbacks \ {e}
    /\ isCallbackCanceled' =
          IF revision = "map" THEN MapErase(isCallbackCanceled, e.token)
          ELSE isCallbackCanceled
    /\ mutexOwner' = IF revision = "map" THEN "none" ELSE mutexOwner
    /\ workerPc' = "calling"
    /\ UNCHANGED <<revision, clock, time, nextToken, canceledCallbacks, stopWorker,
                   dtorPc, history>>

\* the entry on top is canceled: (erase the token,) pop, loop
WorkerDrain(e) ==
    /\ scheduledCallbacks' = scheduledCallbacks \ {e}
    /\ isCallbackCanceled' =
          IF revision = "map" THEN MapErase(isCallbackCanceled, e.token)
          ELSE isCallbackCanceled
    /\ UNCHANGED <<revision, clock, time, nextToken, canceledCallbacks, stopWorker,
                   mutexOwner, workerPc, callback, now, dtorPc, history>>

\* The loop body over a non-empty queue, clock sampled and entry judged.
WorkerBody ==
    \E nextInSchedule \in Top(scheduledCallbacks) :
        IF clock = NullClock THEN WorkerCrash
        ELSE IF ShouldWait(nextInSchedule, GetCurrentTime(clock, time))
             THEN WorkerWait(nextInSchedule)
        ELSE IF ShouldFire(nextInSchedule, GetCurrentTime(clock, time))
             THEN WorkerFire(nextInSchedule, GetCurrentTime(clock, time))
        ELSE WorkerDrain(nextInSchedule)

\* A slip: the stop flag is looked at only when the queue is empty.
WorkerPassIgnoresStop ==
    /\ workerPc = "eval"
    /\ scheduledCallbacks # {}
    /\ WorkerBody

\* One pass of the loop body over a non-empty queue.
WorkerPass ==
    /\ workerPc = "eval"
    /\ ~stopWorker
    /\ scheduledCallbacks # {}
    /\ WorkerBody

\* callback(): the invocation begins
CallbackStart ==
    /\ workerPc = "calling"
    /\ workerPc' = "running"
    /\ fired' = Append(fired, [callback |-> callback.callback, now |-> now])
    /\ UNCHANGED <<revision, clock, time, scheduledCallbacks, nextToken,
                   canceledCallbacks, isCallbackCanceled, stopWorker, mutexOwner,
                   callback, now, dtorPc, calls, reached, cancelRequested,
                   safeCancel, armed,
                   cancelPending, lastSetClock>>

\* callback() returns; the "map" revision takes the mutex again (lock.lock())
CallbackReturn ==
    /\ workerPc = "running"
    /\ CanLock("worker")
    /\ mutexOwner' = "worker"
    /\ workerPc' = "eval"
    /\ callback' = NoCallback
    /\ now' = -1
    /\ UNCHANGED <<revision, clock, time, scheduledCallbacks, nextToken,
                   canceledCallbacks, isCallbackCanceled, stopWorker, dtorPc, history>>

\* wait_for's timeout runs out (real time, not the Clock's)
Timeout ==
    /\ workerPc = "waiting"
    /\ workerPc' = "woken"
    /\ UNCHANGED <<revision, clock, time, scheduledCallbacks, nextToken,
                   canceledCallbacks, isCallbackCanceled, stopWorker, mutexOwner,
                   callback, now, dtorPc, history>>

\* a condition variable may wake without a notification
SpuriousWakeup ==
    /\ workerPc = "idle"
    /\ workerPc' = "woken"
    /\ UNCHANGED <<revision, clock, time, scheduledCallbacks, nextToken,
                   canceledCallbacks, isCallbackCanceled, stopWorker, mutexOwner,
                   callback, now, dtorPc, history>>

----------------------------------------------------------------------------
(* Impl::~Impl, run by the owner's thread *)

\* the destructor is entered and goes for the mutex
DestroyCall ==
    /\ dtorPc = "alive"
    /\ dtorPc' = "locking"
    /\ UNCHANGED <<revision, clock, time, scheduledCallbacks, nextToken,
                   canceledCallbacks, isCallbackCanceled, stopWorker, mutexOwner,
                   workerPc, callback, now, history>>

\* A slip: the flag is set but the worker is not notified.
DestroyStopNoNotify ==
    /\ dtorPc = "locking"
    /\ mutexOwner = "none"
    /\ stopWorker' = TRUE
    /\ dtorPc' = "joining"
    /\ UNCHANGED <<revision, clock, time, scheduledCallbacks, nextToken,
                   canceledCallbacks, isCallbackCanceled, mutexOwner, workerPc,
                   callback, now, history>>

\* lock; stopWorker = true; notify_all; unlock
DestroyStop ==
    /\ dtorPc = "locking"
    /\ mutexOwner = "none"
    /\ stopWorker' = TRUE
    /\ workerPc' = Notify(workerPc)
    /\ dtorPc' = "joining"
    /\ UNCHANGED <<revision, clock, time, scheduledCallbacks, nextToken,
                   canceledCallbacks, isCallbackCanceled, mutexOwner, callback, now,
                   history>>

\* worker.join() returns once Worker has returned
DestroyJoin ==
    /\ dtorPc = "joining"
    /\ workerPc = "stopped"
    /\ dtorPc' = "destroyed"
    /\ UNCHANGED <<revision, clock, time, scheduledCallbacks, nextToken,
                   canceledCallbacks, isCallbackCanceled, stopWorker, mutexOwner,
                   workerPc, callback, now, history>>

----------------------------------------------------------------------------
Worker ==
    \/ WorkerLock
    \/ WorkerExit
    \/ WorkerIdle
    \/ WorkerPass
    \/ CallbackStart
    \/ CallbackReturn

Next ==
    \/ Advance
    \/ \E thr \in Threads, c \in Clocks : SetClock(thr, c)
    \/ \E thr \in Threads, d \in Dues : Schedule(thr, d)
    \/ \E thr \in Threads, t \in CancelTokens : Cancel(thr, t)
    \/ \E thr \in Threads : WakeUp(thr)
    \/ Worker
    \/ Timeout
    \/ SpuriousWakeup
    \/ DestroyCall
    \/ DestroyStop
    \/ DestroyJoin

Spec == Init /\ [][Next]_vars

\* The worker thread keeps running and every callback returns (WorkerLock ..
\* CallbackReturn are the worker's own steps); a thread waiting for the mutex
\* gets it if it is released again and again; join returns once the worker
\* has.  Timeouts, spurious wake-ups and the callers' calls are not forced.
Fairness == WF_vars(Worker) /\ SF_vars(DestroyStop) /\ WF_vars(DestroyJoin)

FairSpec == Spec /\ Fairness

----------------------------------------------------------------------------
(* Properties *)

Reading == GetCurrentTime(clock, time)

\* C1 (no early firing): every invocation that has begun was decided in a pass
\* whose clock sample was at or past the callback's due time, and the worker is
\* never between that decision and the callback's return with a smaller sample.
C1_NoEarlyFiring ==
    /\ \A i \in 1..Len(fired) :
          /\ calls[fired[i].callback].hadClock
          /\ fired[i].now >= calls[fired[i].callback].due
    /\ workerPc \in {"calling", "running"} =>
          /\ callback.due = calls[callback.callback].due
          /\ now >= callback.due

\* A callback with a due time in the future has run, and Cancel and WakeUp
\* calls were made along the way.
C1_Witness ==
    \E i \in 1..Len(fired) :
        /\ calls[fired[i].callback].due = MaxTime
        /\ armed # {}
        /\ cancelRequested # {}

\* C2 (eventual firing): once WakeUp has been called with the scheduler's clock
\* at or past a registered callback's due time, then - unless its token is
\* passed to Cancel, the scheduler is destroyed, or the clock is replaced by one
\* that reads less than the due time - the callback comes to be invoked, once.
C2_EventualFiring ==
    \A k \in 1..MaxCalls :
        (k \in armed) ~>
            \/ Invocations(k) = 1
            \/ k \in cancelRequested
            \/ dtorPc # "alive"
            \/ k \notin armed

\* C3 (cancellation effectiveness): a callback whose token was passed to Cancel
\* before the scheduler's clock had ever reported its due time is never picked
\* for firing and never invoked, whatever happens afterwards.
C3_CancelEffective ==
    \A k \in safeCancel :
        /\ Invocations(k) = 0
        /\ callback.callback # k

\* Such a callback, with the clock now past its due time, a WakeUp made since,
\* and its entry gone from the queue.
C3_Witness ==
    \E k \in safeCancel :
        /\ calls[k].due > 0
        /\ k \in armed
        /\ ~Pending(k)
        /\ workerPc = "idle"

\* C4 (at most once): no callback has been invoked more than once.
C4_AtMostOnce == \A k \in 1..Len(calls) : Invocations(k) <= 1

\* Every scheduled callback has run once, and the worker was woken after that.
C4_Witness ==
    /\ Len(calls) = MaxCalls
    /\ \A k \in 1..Len(calls) : Invocations(k) = 1 /\ k \in armed
    /\ workerPc = "woken"

\* C5 (inert without clock): a Schedule call made while no clock was ever set
\* returned 0, left no entry in the queue, and its callback is never picked or
\* invoked.
C5_InertWithoutClock ==
    \A k \in 1..Len(calls) :
        ~calls[k].hadClock =>
            /\ calls[k].token = 0
            /\ ~Pending(k)
            /\ callback.callback # k
            /\ Invocations(k) = 0

\* A call made without a clock; a clock attached later now reads past its due
\* time, WakeUp has been called and the worker has fired another callback.
C5_Witness ==
    \E k, j \in 1..Len(calls) :
        /\ ~calls[k].hadClock
        /\ calls[k].due > 0
        /\ clock # NullClock /\ Reading >= calls[k].due
        /\ Invocations(j) = 1
        /\ j \in armed

\* C6 (pairwise ordering): the entry the worker picks for firing has the
\* smallest due time in the queue, and a callback is invoked after one with a
\* larger due time only if it was scheduled after the worker had picked that one.
C6_PicksEarliest ==
    (workerPc = "eval" /\ workerPc' = "calling")
        => \A o \in scheduledCallbacks : o.due >= callback'.due

C6_FiredInDueOrder ==
    \A i, j \in 1..Len(fired) :
        (i < j /\ calls[fired[j].callback].due < calls[fired[i].callback].due)
            => calls[fired[j].callback].picks >= i

C6_PairwiseOrdering == []C6_FiredInDueOrder /\ [][C6_PicksEarliest]_vars

\* Two callbacks, the later due one scheduled first, both scheduled before the
\* worker picked anything, have fired in the order of their due times.
C6_Witness ==
    /\ Len(fired) = 2
    /\ fired[1].callback = 2 /\ fired[2].callback = 1
    /\ calls[2].due < calls[1].due
    /\ calls[2].picks = 0
    /\ cancelRequested = {}

\* C7 (Cancel of an unknown or stale token is a no-op): an entry leaves the
\* queue without being invoked only if its token was passed to Cancel after
\* Schedule had issued it.
C7_StaleCancelNoOp ==
    [][\A e \in scheduledCallbacks :
          (e \notin scheduledCallbacks' /\ callback' # e) => e.callback \in cancelRequested]_vars

\* C8 (token issuance): a call returns 0 exactly when no clock was set; the
\* k-th successful call returns k; nextToken is one more than the number of
\* successful calls; a call that returns 0 changes nothing of the scheduler.
SuccessfulUpTo(k) == {j \in 1..k : calls[j].token # 0}

C8_TokensInOrder ==
    /\ \A k \in 1..Len(calls) :
          /\ calls[k].token = 0 <=> ~calls[k].hadClock
          /\ calls[k].token # 0 => calls[k].token = Cardinality(SuccessfulUpTo(k))
    /\ nextToken = Cardinality(SuccessfulUpTo(Len(calls))) + 1

C8_FailedCallChangesNothing ==
    (Len(calls') = Len(calls) + 1 /\ calls'[Len(calls')].token = 0)
        => UNCHANGED <<nextToken, scheduledCallbacks, canceledCallbacks, isCallbackCanceled>>

C8_TokenIssuance == []C8_TokensInOrder /\ [][C8_FailedCallChangesNothing]_vars

\* A failed call followed by successful ones.
C8_Witness ==
    /\ Len(calls) = MaxCalls
    /\ calls[1].token = 0
    /\ calls[Len(calls)].token = Len(calls) - 1

\* C9 as stated: once the stop flag is set no callback invocation begins, no
\* queued callback is picked, and after the destructor has returned the worker
\* has exited.
C9_NoPickAfterStop == stopWorker => (callback' = callback \/ callback' = NoCallback)

C9_NoInvocationAfterStop == stopWorker => fired' = fired

C9_NothingRunsAfterDestroy ==
    dtorPc = "destroyed" => (workerPc = "stopped" /\ callback = NoCallback)

C9_Original ==
    /\ []C9_NothingRunsAfterDestroy
    /\ [][C9_NoPickAfterStop]_vars
    /\ [][C9_NoInvocationAfterStop]_vars

\* C9, amended: once the stop flag is set the worker picks no further entry (a
\* callback can still begin only if the worker had picked it before), so what
\* is queued then is never invoked; after the destructor has returned the
\* worker has exited and no callback is running.
C9_ShutdownSafety ==
    /\ []C9_NothingRunsAfterDestroy
    /\ [][C9_NoPickAfterStop]_vars

\* The destructor has returned and left behind a queued callback that was due
\* and not canceled, after the worker had fired another one.
C9_Witness ==
    /\ dtorPc = "destroyed"
    /\ Len(fired) >= 1
    /\ \E e \in scheduledCallbacks :
          /\ clock # NullClock /\ Reading >= e.due
          /\ e.callback \notin cancelRequested

\* C10 (shutdown termination): once the destructor has been called, it returns.
C10_ShutdownTerminates == (dtorPc # "alive") ~> (dtorPc = "destroyed")

\* The destructor has returned after the worker had fired a callback, with
\* entries still queued.
C10_Witness ==
    /\ dtorPc = "destroyed"
    /\ Len(fired) >= 1
    /\ scheduledCallbacks # {}

\* C11 (callbacks run outside the lock): while the worker is executing a
\* callback it does not hold the mutex, so a Schedule, Cancel or WakeUp by
\* another thread can take the lock and complete before the callback returns.
C11_CallbackOutsideLock ==
    workerPc = "running" =>
        /\ mutexOwner # "worker"
        /\ dtorPc = "alive" =>
              /\ ENABLED WakeUp("client")
              /\ \A t \in CancelTokens : ENABLED Cancel("client", t)
              /\ Len(calls) < MaxCalls =>
                    \A d \in Dues : ENABLED Schedule("client", d)

\* No step but the worker's own evaluation pass takes an entry out of the queue
\* or takes back a cancellation mark.
MarkedTokens ==
    IF revision = "set" THEN canceledCallbacks
    ELSE {t \in DOMAIN isCallbackCanceled : isCallbackCanceled[t]}

C12_EffectKept ==
    workerPc # "eval" =>
        /\ scheduledCallbacks \subseteq scheduledCallbacks'
        /\ MarkedTokens \subseteq MarkedTokens'

\* A call made from inside a callback can proceed and returns into the callback.
C12_CallReturns ==
    workerPc = "running" =>
        /\ ENABLED WakeUp("worker")
        /\ \A t \in CancelTokens : ENABLED Cancel("worker", t)
        /\ Len(calls) < MaxCalls => \A d \in Dues : ENABLED Schedule("worker", d)

\* A call made while a callback runs leaves the worker in that callback, and a
\* successful Schedule has put its entry into the queue.
C12_CallLeavesCallbackRunning ==
    (workerPc = "running" /\ (calls' # calls \/ cancelRequested' # cancelRequested)) =>
        /\ workerPc' = "running"
        /\ (calls' # calls /\ calls'[Len(calls')].token # 0) =>
              \E e \in scheduledCallbacks' : e.callback = Len(calls')

\* C12 (re-entrancy without deadlock): Schedule, Cancel and WakeUp called from
\* inside a callback are never blocked and return, and the entry or the
\* cancellation mark they leave is still there at the worker's next evaluation
\* pass.
C12_ReentrancyNoDeadlock ==
    /\ []C12_CallReturns
    /\ [][C12_CallLeavesCallbackRunning]_vars
    /\ [][C12_EffectKept]_vars

\* Under the revision that keeps the lock across the callback, the first
\* callback scheduled a second one from inside itself, and the worker has
\* gone on to invoke that one.
C12_Witness ==
    /\ revision = "set"
    /\ Len(fired) = 2 /\ fired[1].callback = 1 /\ fired[2].callback = 2
    /\ calls[2].picks = 1
    /\ clock = lastSetClock

\* A Schedule call that takes a token leaves the worker out of both waits.
C13_ScheduleWakesWorker ==
    (calls' # calls /\ calls'[Len(calls')].token # 0) =>
        workerPc' \notin {"idle", "waiting"}

\* Call k took a token, the clock reads at least its due time, and the
\* worker is not blocked in a wait.
C13_DueAndAwake(k) ==
    /\ k \in 1..Len(calls)
    /\ calls[k].token # 0
    /\ clock # NullClock
    /\ Reading >= calls[k].due
    /\ workerPc \notin {"idle", "waiting"}

\* C13 (past-due scheduling fires without an explicit wake): a Schedule call
\* with a clock that already reads at least the due time gets the worker out
\* of whichever wait it was in, and from there the callback is invoked, with
\* no WakeUp needed, unless it is canceled, the scheduler is destroyed, or the
\* clock comes to read less than the due time.
C13_PastDueFires ==
    /\ [][C13_ScheduleWakesWorker]_vars
    /\ \A k \in 1..MaxCalls :
          C13_DueAndAwake(k) ~>
              \/ k \in 1..Len(calls) /\ Invocations(k) = 1
              \/ k \in cancelRequested
              \/ dtorPc # "alive"
              \/ k \in 1..Len(calls) /\ Reading < calls[k].due

\* GetClock returns what the latest SetClock call was given, and the null
\* handle when there has been none.
C14_GetClockIsLastSet == GetClock = lastSetClock

\* A step that changes the stored handle is a SetClock call: it touches
\* nothing else of the scheduler.
C14_OnlySetClockStores ==
    clock' # clock =>
        /\ clock' = lastSetClock'
        /\ UNCHANGED <<scheduledCallbacks, nextToken, canceledCallbacks,
                       isCallbackCanceled, stopWorker, mutexOwner, workerPc,
                       callback, now, dtorPc, calls, fired, cancelRequested>>

\* C14 (SetClock/GetClock round trip): GetClock returns the handle of the most
\* recent SetClock call, the null handle on a fresh scheduler, and Schedule,
\* Cancel, WakeUp and the worker never change the stored handle.
C14_ClockRoundTrip ==
    /\ []C14_GetClockIsLastSet
    /\ [][C14_OnlySetClockStores]_vars

\* The worker sampled clockA for its first invocation, SetClock has since put
\* clockB in its place, and GetClock returns clockB, with a Schedule call and
\* a Cancel call made in between.
C14_Witness ==
    /\ revision = "map"
    /\ time = 0 /\ Len(fired) >= 1 /\ fired[1].now = 0
    /\ cancelRequested # {}
    /\ lastSetClock = "clockB" /\ GetClock = "clockB"

\* The calls whose entries the worker has picked for invocation, in the order
\* of the picks.
PickedCalls ==
    IF workerPc = "calling"
    THEN [i \in 1..(Len(fired) + 1) |->
             IF i <= Len(fired) THEN fired[i].callback ELSE callback.callback]
    ELSE [i \in 1..Len(fired) |-> fired[i].callback]

\* C15 as stated (global firing order): the due times of the invoked
\* callbacks, in the order of invocation, never decrease.
C15_Original ==
    \A i, j \in 1..Len(fired) :
        i < j => calls[fired[i].callback].due <= calls[fired[j].callback].due

\* C15, amended: a callback is picked before every callback of a later due
\* time that was in the queue at that pick; only a callback scheduled after
\* the pick of another can follow it with an earlier due time.
C15_FiringOrder ==
    \A i, j \in 1..Len(PickedCalls) :
        (i < j /\ calls[PickedCalls[j]].picks < i) =>
            calls[PickedCalls[i]].due <= calls[PickedCalls[j]].due

\* Two callbacks were scheduled in the reverse of their due order before the
\* worker picked either; the one scheduled second has been invoked and the
\* worker has now picked the other.
C15_Witness ==
    /\ Len(fired) = 1 /\ fired[1].callback = 2
    /\ workerPc = "calling" /\ callback.callback = 1
    /\ calls[1].due > calls[2].due
    /\ calls[1].picks = 0

\* The tokens the cancellation bookkeeping holds.
Bookkeeping ==
    IF revision = "set" THEN canceledCallbacks ELSE DOMAIN isCallbackCanceled

\* C16 (cancellation bookkeeping is bounded by the pending set): every token
\* in the cancellation bookkeeping is the token of an entry now in the queue,
\* so the bookkeeping is empty whenever the queue is.
C16_BookkeepingBounded ==
    Bookkeeping \subseteq {e.token : e \in scheduledCallbacks}

\* A callback whose token was passed to Cancel while its entry was queued
\* has not been invoked and is not about to be.
C17_CanceledNeverInvoked ==
    \A k \in cancelPending : Invocations(k) = 0 /\ callback.callback # k

\* The worker does not go into the timed wait for an entry canceled while
\* queued: when it does wait, some entry on top was not canceled.
C17_NoSleepOnCanceled ==
    (workerPc = "eval" /\ workerPc' = "waiting") =>
        \E e \in Top(scheduledCallbacks) : e.callback \notin cancelPending

\* The step that takes a canceled entry out of the queue leaves the worker
\* at the head of its loop, holding no callback to invoke.
C17_DrainGoesOn ==
    (\E e \in scheduledCallbacks \ scheduledCallbacks' :
         e.callback \in cancelPending) =>
        workerPc' = "eval" /\ callback' = callback

\* C17 (the cancellation check is the linearization point): a callback whose
\* token is canceled while its entry is still queued is never invoked, due or
\* not; the worker takes the entry out without invoking it and without
\* sleeping on its due time, and evaluates the queue again.  So a callback
\* that runs after a Cancel of its token had left the queue before that
\* Cancel took the lock.
C17_CancelLinearizes ==
    /\ []C17_CanceledNeverInvoked
    /\ [][C17_NoSleepOnCanceled]_vars
    /\ [][C17_DrainGoesOn]_vars

\* Call 1 was canceled while queued, and only after the clock had reached its
\* due time; the worker has taken its entry out without invoking it and has
\* gone on to invoke call 2, which was due no earlier.
C17_Witness ==
    /\ 1 \in cancelPending /\ 1 \notin safeCancel
    /\ ~Pending(1)
    /\ Len(fired) = 1 /\ fired[1].callback = 2
    /\ calls[1].due <= calls[2].due

\* The worker is not left in a wait with the stop flag set, nor in the
\* untimed wait with an entry queued.
C18_NotBlockedWithWork ==
    /\ workerPc \in {"idle", "waiting"} => ~stopWorker
    /\ workerPc = "idle" => scheduledCallbacks = {}

\* A Schedule call that takes a token, a WakeUp call and the destructor's stop,
\* made while the worker is blocked, bring it out of the wait.
C18_CallWakesBlockedWorker ==
    (/\ workerPc \in {"idle", "waiting"}
     /\ \/ calls' # calls /\ calls'[Len(calls')].token # 0
        \/ ~(armed' \subseteq armed)
        \/ stopWorker' # stopWorker) =>
        workerPc' = "woken"

\* C18 (no lost wakeup): the worker is never blocked in the untimed wait
\* while an entry is queued or the stop flag is set, every Schedule or WakeUp
\* made while it is blocked wakes it, and a woken worker comes to evaluate
\* the queue again.
C18_NoLostWakeup ==
    /\ []C18_NotBlockedWithWork
    /\ [][C18_CallWakesBlockedWorker]_vars
    /\ (workerPc = "woken") ~> (workerPc = "eval")

\* The worker has invoked one callback, dropped a canceled one that was
\* scheduled after that pick, and is blocked again on the empty queue.
C18_Witness ==
    /\ workerPc = "idle"
    /\ Len(fired) = 1 /\ fired[1].callback = 1
    /\ Len(calls) = 2 /\ calls[2].picks = 1 /\ 2 \in cancelPending
    /\ ~stopWorker

\* C19 (the worker never samples a missing clock): with SetClock only ever
\* given a clock, the stored handle is not null in any state where an entry is
\* queued, and the worker never calls GetCurrentTime through a null handle.
C19_ClockPresentWhenQueued ==
    /\ scheduledCallbacks # {} => clock # NullClock
    /\ workerPc # "crashed"

\* A Schedule call without a clock was refused, a later one with a clock was
\* accepted, and the worker has sampled the clock for the queued entry and
\* is waiting for its due time.
C19_Witness ==
    /\ Len(calls) = 2 /\ ~calls[1].hadClock /\ calls[2].hadClock
    /\ Pending(2)
    /\ workerPc = "waiting"
    /\ clock # NullClock /\ Reading < calls[2].due

====
